---- MODULE Spec2Model ----
(***************************************************************************)
(* AI-Music-Visualizer: the App component (transport, audio graph,         *)
(* palette/title generation, capture pipeline) and the VisualizerCanvas    *)
(* component (live render loop), as one state machine.                     *)
(*                                                                         *)
(* Every handler is one action.  A handler that changes App state ends     *)
(* with the React commit it causes (Rerender): the VisualizerCanvas effect *)
(* is cleaned up and re-run when one of its dependencies changed.          *)
(* requestAnimationFrame callbacks wait in rafQueue; a display refresh     *)
(* (BeginFrame) moves them to frameQueue and runs them one by one, and no  *)
(* other task runs in between.                                             *)
(*                                                                         *)
(* Numbers: in the system specifications bar lengths are exact rationals,  *)
(* kept as integers in units of 1/LengthUnit pixel.  NumberSpec runs the   *)
(* same bar update in IEEE 754 double arithmetic (Round, Mul, DivInt, Sub, *)
(* round to nearest, ties to even), as the JavaScript engine computes it.  *)
(* Strings that the code takes apart (file names, titles) are sequences of *)
(* characters.  A null object reference is 0, a null string is NULL.       *)
(***************************************************************************)
EXTENDS Integers, Sequences, FiniteSets, TLC

\* ------------------------------------------------------------------ bounds
MaxLoads == 2
MaxSessions == 2
MaxHandle == 7
TransportHandles == 5
GenerateHandles == 2
RenderHandles == 6
NumberHandles == 4
SessionsHandles == 11
ChunksHandles == 7
ClosureHandles == 9
MaxChunks == 1
MaxNameLen == 4
NUM_BARS == 3

\* ------------------------------------------------------- program constants
fftSize == 2048

NULL == "null"
Undefined == "undefined"
NoFile == <<>>

InitialColors == <<"#000000", "#8A2BE2", "#FFFFFF">>
DefaultBarColors == <<"#8A2BE2", "#FFFFFF">>
TitleFill == "rgba(255, 255, 255, 0.95)"
ContextDefaultStyle == "#000000"

RESOLUTIONS(ratio) ==
  IF ratio = "16:9" THEN [width |-> 1920, height |-> 1080]
                    ELSE [width |-> 1080, height |-> 1920]

ErrImage == "Failed to load image file."
ErrPaletteShort == "AI did not return a valid palette. Please try a different prompt."
ErrPaletteService == "Could not generate a color palette. The AI service might be unavailable or the prompt was invalid."
ErrTitleService == "Could not generate a title from the AI service."
ErrVideo == "An error occurred during video creation."
ErrPlayback == "Could not start playback for recording."

\* ------------------------------------------------------------------ inputs
FileNames == { <<"s", ".", "m">> }
AspectRatios == {"16:9", "9:16"}
Images == {"img1"}
TypedTitles == { <<>>, <<"T">> }
ProviderTitles == { <<" ">>, <<"'", "T", "'">> }
ProviderPalettes == { <<>>, <<"#010101">>, <<"#010101", "#00FFD1">> }
Samples == {"silence", "bass"}
Spectra == Samples \cup {"mid", "loud"}

\* The layout box of the live canvas follows the aspect-ratio style of its parent.
ClientSize(ratio) ==
  IF ratio = "16:9" THEN [width |-> 800, height |-> 450]
                    ELSE [width |-> 450, height |-> 800]

VARIABLES
  file, fileUrl, isPlaying, isDownloading, isGenerating, isGeneratingTitle,
  colors, aspectRatio, videoTitle, image, error,
  audioRef, audioContextRef, analyserRef, sourceRef,
  mediaRecorderRef, recordingChunksRef,
  media, graphs, sessions, downloads, pendingImage,
  canvas, rafQueue, frameQueue, nextHandle, handleBudget

appVars == <<file, fileUrl, isPlaying, isDownloading, isGenerating, isGeneratingTitle,
             colors, aspectRatio, videoTitle, image, error>>
refVars == <<audioRef, audioContextRef, analyserRef, sourceRef,
             mediaRecorderRef, recordingChunksRef>>
platformVars == <<media, graphs, sessions, downloads, pendingImage>>
canvasVars == <<canvas, rafQueue, nextHandle, handleBudget>>
vars == <<file, fileUrl, isPlaying, isDownloading, isGenerating, isGeneratingTitle,
          colors, aspectRatio, videoTitle, image, error,
          audioRef, audioContextRef, analyserRef, sourceRef,
          mediaRecorderRef, recordingChunksRef,
          media, graphs, sessions, downloads, pendingImage,
          canvas, rafQueue, frameQueue, nextHandle, handleBudget>>

Min(a, b) == IF a < b THEN a ELSE b
Max(a, b) == IF a > b THEN a ELSE b

\* ------------------------------------------------------ Bar-State Animator
LengthUnit == 255 * 160

frequencyBinCount == fftSize \div 2

\* Math.min(width, height) * 0.35
MaxBarLength(width, height) == (Min(width, height) * 35 * LengthUnit) \div 100

\* Math.floor((i / NUM_BARS) * (frequencyBinCount * 0.5)), i counted from 0
DataIndex(i) == (i * frequencyBinCount) \div (2 * NUM_BARS)

\* getByteFrequencyData: the byte of bin b in the current spectrum.  "bass" has
\* energy in the lowest quarter of the bins only; its level is small enough for a
\* bar to come back to rest within two ticks; "mid" and "loud" are level in every bin.
DataAt(sample, b) ==
  IF sample = "loud" THEN 255
  ELSE IF sample = "mid" THEN 19
  ELSE IF sample = "bass" /\ b < frequencyBinCount \div 4 THEN 7 ELSE 0

\* What analyser a (of the graphs g) can report while the media elements are in
\* the states m: silence unless the element its source is bound to is playing.
Heard(g, m, a) ==
  IF a # 0 /\ m[g[a].element].state = "playing" THEN Samples ELSE {"silence"}

\* (dataArray[dataIndex] / 255) * maxBarLength; every maxBarLength is a whole
\* multiple of 255 units
TargetLength(data, maxBarLength) == data * (maxBarLength \div 255)

\* barLengths[i] || 0
OldLength(barLengths, i) == IF i <= Len(barLengths) THEN barLengths[i] ELSE 0

NewLength(targetLength, oldLength, maxBarLength) ==
  IF targetLength >= oldLength
    THEN targetLength
    ELSE Max(targetLength, oldLength - (maxBarLength * 25) \div 1000)

AdvanceBars(barLengths, sample, width, height) ==
  [i \in 1..NUM_BARS |->
     NewLength(TargetLength(DataAt(sample, DataIndex(i - 1)), MaxBarLength(width, height)),
               OldLength(barLengths, i),
               MaxBarLength(width, height))]

\* ----------------------------------------------------------- Scene Renderer
RECURSIVE TrimLeft(_)
TrimLeft(s) == IF s # <<>> /\ Head(s) = " " THEN TrimLeft(Tail(s)) ELSE s
RECURSIVE TrimRight(_)
TrimRight(s) ==
  IF s # <<>> /\ s[Len(s)] = " " THEN TrimRight(SubSeq(s, 1, Len(s) - 1)) ELSE s
Trim(s) == TrimRight(TrimLeft(s))

NoTitle == [text |-> <<>>, fontSize |-> 0, y |-> 0]

\* Math.max(24, Math.min(width * 0.05, 80)), in 1/20 pixel
FontSize(width) == Max(24 * 20, Min(width, 80 * 20))

\* drawTitle: nothing for an empty or whitespace-only text
DrawTitle(text, width, height) ==
  IF Trim(text) = <<>> THEN NoTitle
  ELSE [text |-> text, fontSize |-> FontSize(width),
        y |-> height * 20 - 2 * FontSize(width)]

\* const [backgroundColor, ...barColors] = colors
BackgroundColor(cols) == IF cols = <<>> THEN Undefined ELSE cols[1]
BarColors(cols) == IF cols = <<>> THEN <<>> ELSE Tail(cols)

\* barColors[i % colorCount], i counted from 0; undefined when there is no colour
BarColorAt(barColors, i) ==
  IF barColors = <<>> THEN Undefined ELSE barColors[(i % Len(barColors)) + 1]

\* Assigning an invalid value to a 2D context style leaves the style unchanged.
SetStyle(current, value) == IF value = Undefined THEN current ELSE value

Blank == [background |-> "transparent", image |-> NULL, strokes |-> <<>>,
          lengths |-> <<>>, title |-> NoTitle]

\* VisualizerCanvas draw: the colours the frame is drawn with
LiveBarColors(cols) ==
  IF Len(BarColors(cols)) = 0 THEN DefaultBarColors ELSE BarColors(cols)

LiveFrame(p, barLengths, width, height) ==
  [background |-> IF BackgroundColor(p.colors) = Undefined
                    THEN "#000000" ELSE BackgroundColor(p.colors),
   image |-> p.image,
   strokes |-> [i \in 1..NUM_BARS |-> BarColorAt(LiveBarColors(p.colors), i - 1)],
   lengths |-> barLengths,
   title |-> DrawTitle(p.videoTitle, width, height)]

\* drawOffscreen: the frame drawn from the session's captured palette, image and
\* title on a context whose styles persist from frame to frame
OffscreenFrame(s, barLengths) ==
  [background |-> SetStyle(s.fillStyle, BackgroundColor(s.colors)),
   image |-> s.image,
   strokes |-> [i \in 1..NUM_BARS |->
                  SetStyle(s.strokeStyle, BarColorAt(BarColors(s.colors), i - 1))],
   lengths |-> barLengths,
   title |-> DrawTitle(s.videoTitle, s.width, s.height)]

\* --------------------------------------------- requestAnimationFrame queue
NoProps == [analyserNode |-> 0, isPlaying |-> FALSE, colors |-> <<>>,
            videoTitle |-> <<>>, image |-> NULL]

\* A canvas world: the VisualizerCanvas instances, the pending callbacks and the
\* last handle handed out.
World == [canvas |-> canvas, raf |-> rafQueue, next |-> nextHandle]

RequestAnimationFrame(cw, kind, owner, p) ==
  [cw EXCEPT !.raf = Append(@, [handle |-> cw.next + 1, kind |-> kind,
                                owner |-> owner, props |-> p]),
             !.next = @ + 1]

CancelAnimationFrame(cw, handle) ==
  [cw EXCEPT !.raf = SelectSeq(@, LAMBDA e : e.handle # handle)]

\* -------------------------------------------------- VisualizerCanvas (live)
\* draw(), as closed over the props p of the effect run that created it
Draw(cw, k, p, sample) ==
  LET c == cw.canvas[k]
      size == IF c.mounted THEN ClientSize(aspectRatio)
                           ELSE [width |-> c.width, height |-> c.height]
      bars == AdvanceBars(c.barLengthsRef, sample, size.width, size.height)
      drawn == [cw EXCEPT !.canvas[k] =
                  [c EXCEPT !.width = size.width, !.height = size.height,
                            !.barLengthsRef = bars,
                            !.frame = LiveFrame(p, bars, size.width, size.height)]]
      asked == RequestAnimationFrame(drawn, "draw", k, p)
  IN IF p.isPlaying
       THEN [asked EXCEPT !.canvas[k].animationFrameRef = asked.next]
       ELSE drawn

\* if (animationFrameRef.current) cancelAnimationFrame(animationFrameRef.current)
CancelTracked(cw, k) ==
  IF cw.canvas[k].animationFrameRef # 0
    THEN CancelAnimationFrame(cw, cw.canvas[k].animationFrameRef)
    ELSE cw

\* the effect's cleanup function, when the last run returned one
Cleanup(cw, k) == IF cw.canvas[k].hasCleanup THEN CancelTracked(cw, k) ELSE cw

\* the body of useEffect, run with props p
RunEffect(cw, k, p, sample) ==
  IF p.analyserNode = 0
    THEN [cw EXCEPT !.canvas[k].props = p, !.canvas[k].hasCleanup = FALSE]
    ELSE LET drawn == Draw(cw, k, p, sample)
             asked == RequestAnimationFrame(drawn, "draw", k, p)
             after == IF p.isPlaying
                        THEN [asked EXCEPT !.canvas[k].animationFrameRef = asked.next]
                        ELSE CancelTracked(drawn, k)
         IN [after EXCEPT !.canvas[k].props = p, !.canvas[k].hasCleanup = TRUE]

NewCanvas(p) ==
  [animationFrameRef |-> 0, barLengthsRef |-> <<>>, frame |-> Blank,
   width |-> 300, height |-> 150, props |-> p, hasCleanup |-> FALSE, mounted |-> TRUE]

\* What a React commit does to the VisualizerCanvas, from the world cw: mount when a
\* file appears, unmount when it goes, otherwise re-run the effect if a dependency
\* changed.
Commit(cw, wasMounted, nowMounted, p, sample) ==
  LET k == Len(cw.canvas) IN
  CASE ~wasMounted /\ ~nowMounted -> cw
    [] ~wasMounted /\ nowMounted ->
         RunEffect([cw EXCEPT !.canvas = Append(@, NewCanvas(p))], k + 1, p, sample)
    [] wasMounted /\ ~nowMounted ->
         [Cleanup(cw, k) EXCEPT !.canvas[k].mounted = FALSE,
                                !.canvas[k].hasCleanup = FALSE]
    [] wasMounted /\ nowMounted ->
         IF cw.canvas[k].props = p THEN cw
         ELSE RunEffect(Cleanup(cw, k), k, p, sample)

\* The commit that follows a handler; reads the state the handler has set.
Rerender(cw) ==
  \E sample \in Heard(graphs', media', analyserRef') :
    LET p == [analyserNode |-> analyserRef', isPlaying |-> isPlaying',
              colors |-> colors', videoTitle |-> videoTitle', image |-> image']
        out == Commit(cw, file # NoFile, file' # NoFile, p, sample)
    IN /\ out.next <= handleBudget
       /\ canvas' = out.canvas
       /\ rafQueue' = out.raf
       /\ nextHandle' = out.next
       /\ handleBudget' = handleBudget

\* The state after the first render; budget: the animation-frame handles the run
\* may hand out.
InitWith(budget) ==
  /\ handleBudget = budget
  /\ file = NoFile /\ fileUrl = 0
  /\ isPlaying = FALSE /\ isDownloading = FALSE
  /\ isGenerating = FALSE /\ isGeneratingTitle = FALSE
  /\ colors = InitialColors
  /\ aspectRatio = "16:9"
  /\ videoTitle = <<>>
  /\ image = NULL
  /\ error = NULL
  /\ audioRef = 0 /\ audioContextRef = 0 /\ analyserRef = 0 /\ sourceRef = 0
  /\ mediaRecorderRef = 0 /\ recordingChunksRef = <<>>
  /\ media = <<>> /\ graphs = <<>> /\ sessions = <<>> /\ downloads = <<>>
  /\ pendingImage = NULL
  /\ canvas = <<>> /\ rafQueue = <<>> /\ frameQueue = <<>> /\ nextHandle = 0

Init == InitWith(MaxHandle)

Idle == frameQueue = <<>>
PanelMounted == file # NoFile


\* ------------------------------------------------------------- audio graph
Refs == [graphs |-> graphs, audioContextRef |-> audioContextRef,
         analyserRef |-> analyserRef, sourceRef |-> sourceRef]

\* A setup that builds the graph without remembering its context.
SetupAudioContextUnrecorded(g) ==
  IF audioRef = 0 THEN g
  ELSE [graphs |-> Append(g.graphs, [element |-> audioRef, toSpeakers |-> TRUE]),
        audioContextRef |-> 0,
        analyserRef |-> Len(g.graphs) + 1,
        sourceRef |-> Len(g.graphs) + 1]

\* setupAudioContext: one context, one analyser and one source on the mounted media
\* element, the analyser connected to the speakers; nothing when a context exists
SetupAudioContext(g) ==
  IF audioRef = 0 THEN g
  ELSE IF g.audioContextRef = 0
    THEN [graphs |-> Append(g.graphs, [element |-> audioRef, toSpeakers |-> TRUE]),
          audioContextRef |-> Len(g.graphs) + 1,
          analyserRef |-> Len(g.graphs) + 1,
          sourceRef |-> Len(g.graphs) + 1]
    ELSE g

\* handlePlayPause on the transport t = [refs, media, isPlaying]
PlayPause(t) ==
  LET g == IF t.refs.audioContextRef = 0 THEN SetupAudioContext(t.refs) ELSE t.refs
      m == IF audioRef = 0 THEN t.media
           ELSE IF t.isPlaying
             THEN [t.media EXCEPT ![audioRef].state =
                                    IF @ = "playing" THEN "paused" ELSE @]
             ELSE [t.media EXCEPT ![audioRef].state = "playing"]
  IN [refs |-> g, media |-> m, isPlaying |-> ~t.isPlaying]

SetRefs(g) ==
  /\ graphs' = g.graphs
  /\ audioContextRef' = g.audioContextRef
  /\ analyserRef' = g.analyserRef
  /\ sourceRef' = g.sourceRef

\* ------------------------------------------------------------ App handlers
\* FileUpload is rendered only while no file is loaded.
HandleFileSelect(name) ==
  /\ Idle
  /\ file = NoFile
  /\ Len(media) < MaxLoads
  /\ LET t == IF isPlaying
                THEN PlayPause([refs |-> Refs, media |-> media, isPlaying |-> isPlaying])
                ELSE [refs |-> Refs, media |-> media, isPlaying |-> isPlaying]
     IN /\ SetRefs(t.refs)
        /\ isPlaying' = t.isPlaying
        /\ media' = Append(t.media, [src |-> Len(media) + 1, state |-> "paused"])
  /\ file' = name
  /\ fileUrl' = Len(media) + 1
  /\ audioRef' = Len(media) + 1
  /\ error' = NULL
  /\ UNCHANGED <<isDownloading, isGenerating, isGeneratingTitle, colors, aspectRatio,
                 videoTitle, image, mediaRecorderRef, recordingChunksRef,
                 sessions, downloads, pendingImage, frameQueue>>
  /\ Rerender(World)

\* Transport buttons that stay enabled during a download.
TransportNeverDisabled == FALSE

\* disabled={isDownloading} of the play/pause and "Upload New File" buttons
TransportDisabled == isDownloading

\* "Upload New File": the audio element and the canvas unmount; a media element
\* removed from the document is paused.
OnNewFile ==
  /\ Idle
  /\ PanelMounted
  /\ ~TransportDisabled
  /\ file' = NoFile
  /\ fileUrl' = 0
  /\ isPlaying' = FALSE
  /\ image' = NULL
  /\ audioRef' = 0
  /\ media' = IF audioRef = 0 THEN media
              ELSE [media EXCEPT ![audioRef].state = IF @ = "playing" THEN "paused" ELSE @]
  /\ UNCHANGED <<isDownloading, isGenerating, isGeneratingTitle, colors, aspectRatio,
                 videoTitle, error, audioContextRef, analyserRef, sourceRef,
                 mediaRecorderRef, recordingChunksRef, graphs, sessions, downloads,
                 pendingImage, frameQueue>>
  /\ Rerender(World)

HandlePlayPause ==
  /\ Idle
  /\ PanelMounted
  /\ ~TransportDisabled
  /\ LET t == PlayPause([refs |-> Refs, media |-> media, isPlaying |-> isPlaying])
     IN /\ SetRefs(t.refs)
        /\ isPlaying' = t.isPlaying
        /\ media' = t.media
  /\ UNCHANGED <<file, fileUrl, isDownloading, isGenerating, isGeneratingTitle, colors,
                 aspectRatio, videoTitle, image, error, audioRef, mediaRecorderRef,
                 recordingChunksRef, sessions, downloads, pendingImage, frameQueue>>
  /\ Rerender(World)

OnAspectRatioChange(ratio) ==
  /\ Idle
  /\ PanelMounted
  /\ ~isDownloading
  /\ aspectRatio' = ratio
  /\ UNCHANGED <<file, fileUrl, isPlaying, isDownloading, isGenerating, isGeneratingTitle,
                 colors, videoTitle, image, error, refVars, platformVars, canvasVars,
                 frameQueue>>

OnVideoTitleChange(title) ==
  /\ Idle
  /\ PanelMounted
  /\ ~isDownloading
  /\ videoTitle' = title
  /\ UNCHANGED <<file, fileUrl, isPlaying, isDownloading, isGenerating, isGeneratingTitle,
                 colors, aspectRatio, image, error, refVars, platformVars, frameQueue>>
  /\ Rerender(World)

\* handleImageSelect: the image decodes asynchronously
HandleImageSelect(img) ==
  /\ Idle
  /\ PanelMounted
  /\ ~isDownloading
  /\ pendingImage = NULL
  /\ pendingImage' = img
  /\ UNCHANGED <<appVars, refVars, media, graphs, sessions, downloads, canvasVars,
                 frameQueue>>

ImageOnload ==
  /\ Idle
  /\ pendingImage # NULL
  /\ image' = pendingImage
  /\ pendingImage' = NULL
  /\ UNCHANGED <<file, fileUrl, isPlaying, isDownloading, isGenerating, isGeneratingTitle,
                 colors, aspectRatio, videoTitle, error, refVars, media, graphs, sessions,
                 downloads, frameQueue>>
  /\ Rerender(World)

ImageOnerror ==
  /\ Idle
  /\ pendingImage # NULL
  /\ error' = ErrImage
  /\ pendingImage' = NULL
  /\ UNCHANGED <<file, fileUrl, isPlaying, isDownloading, isGenerating, isGeneratingTitle,
                 colors, aspectRatio, videoTitle, image, refVars, media, graphs, sessions,
                 downloads, canvasVars, frameQueue>>

\* ------------------------------------------------- palette / title provider
PaletteResponses ==
  {[failed |-> TRUE, palette |-> <<>>]}
    \cup {[failed |-> FALSE, palette |-> p] : p \in ProviderPalettes}

TitleResponses ==
  {[failed |-> TRUE, text |-> <<>>]}
    \cup {[failed |-> FALSE, text |-> t] : t \in ProviderTitles}

\* generateColorPalette: the palette, or a thrown error
GenerateColorPalette(response) ==
  IF ~response.failed /\ Len(response.palette) > 0
    THEN [ok |-> TRUE, palette |-> response.palette, message |-> NULL]
    ELSE [ok |-> FALSE, palette |-> <<>>, message |-> ErrPaletteService]

\* the length test of handleGeneratePalette
PaletteEmpty(palette) == Len(palette) < 1
PaletteTooShort(palette) == Len(palette) < 2

StripQuotes(s) == SelectSeq(s, LAMBDA c : c \notin {"\"", "'"})

\* A generateTitle that returns the cleaned text without looking at it.
GenerateTitleUnchecked(response) ==
  IF ~response.failed
    THEN [ok |-> TRUE, title |-> StripQuotes(Trim(response.text)), message |-> NULL]
    ELSE [ok |-> FALSE, title |-> <<>>, message |-> ErrTitleService]

\* generateTitle: the cleaned title, or a thrown error
GenerateTitle(response) ==
  IF ~response.failed /\ StripQuotes(Trim(response.text)) # <<>>
    THEN [ok |-> TRUE, title |-> StripQuotes(Trim(response.text)), message |-> NULL]
    ELSE [ok |-> FALSE, title |-> <<>>, message |-> ErrTitleService]

\* handleGeneratePalette up to its await (ControlsPanel lets one generation run)
GeneratePaletteStart ==
  /\ Idle
  /\ PanelMounted
  /\ ~isGenerating /\ ~isGeneratingTitle
  /\ isGenerating' = TRUE
  /\ error' = NULL
  /\ UNCHANGED <<file, fileUrl, isPlaying, isDownloading, isGeneratingTitle, colors,
                 aspectRatio, videoTitle, image, refVars, platformVars, canvasVars,
                 frameQueue>>

\* handleGeneratePalette after the await
GeneratePaletteSettle(response) ==
  /\ Idle
  /\ isGenerating
  /\ LET r == GenerateColorPalette(response) IN
       IF r.ok /\ ~PaletteTooShort(r.palette)
         THEN colors' = r.palette /\ error' = error
         ELSE colors' = colors
              /\ error' = IF r.ok THEN ErrPaletteShort ELSE r.message
  /\ isGenerating' = FALSE
  /\ UNCHANGED <<file, fileUrl, isPlaying, isDownloading, isGeneratingTitle, aspectRatio,
                 videoTitle, image, refVars, platformVars, frameQueue>>
  /\ Rerender(World)

GenerateTitleStart ==
  /\ Idle
  /\ PanelMounted
  /\ ~isGenerating /\ ~isGeneratingTitle
  /\ isGeneratingTitle' = TRUE
  /\ error' = NULL
  /\ UNCHANGED <<file, fileUrl, isPlaying, isDownloading, isGenerating, colors,
                 aspectRatio, videoTitle, image, refVars, platformVars, canvasVars,
                 frameQueue>>

GenerateTitleSettle(response) ==
  /\ Idle
  /\ isGeneratingTitle
  /\ LET r == GenerateTitle(response) IN
       IF r.ok THEN videoTitle' = r.title /\ error' = error
               ELSE videoTitle' = videoTitle /\ error' = r.message
  /\ isGeneratingTitle' = FALSE
  /\ UNCHANGED <<file, fileUrl, isPlaying, isDownloading, isGenerating, colors,
                 aspectRatio, image, refVars, platformVars, frameQueue>>
  /\ Rerender(World)


\* --------------------------------------------------------- Capture Pipeline
\* file.name.split('.')[0]
RECURSIVE FirstPiece(_)
FirstPiece(name) ==
  IF name = <<>> \/ Head(name) = "." THEN <<>>
  ELSE <<Head(name)>> \o FirstPiece(Tail(name))

\* `${file.name.split('.')[0]}_visualizer.webm`
DownloadName(name) == FirstPiece(name) \o <<"_visualizer", ".", "webm">>

\* An early return that does not look at the downloading flag.
DownloadRefusedUnlessBusy ==
  \/ file = NoFile
  \/ analyserRef = 0
  \/ audioContextRef = 0
  \/ sourceRef = 0
  \/ audioRef = 0

\* the early return of handleDownload
DownloadRefused ==
  \/ isDownloading
  \/ file = NoFile
  \/ analyserRef = 0
  \/ audioContextRef = 0
  \/ sourceRef = 0
  \/ audioRef = 0

\* A stopRecording that never stops the recorder.
StopRecordingIgnored(s) == s

\* stopRecording, on the session's recorder
StopRecording(s) ==
  IF s.recorder = "recording"
    THEN [s EXCEPT !.recorder = "inactive", !.stopPending = TRUE]
    ELSE s

\* What handleDownload closes over for one capture run, with a new recorder (state,
\* pending stop event, the blobs it has emitted so far), tap, 'ended' listener and
\* offscreen canvas.
NewSession ==
  [fileName |-> file,
   width |-> RESOLUTIONS(aspectRatio).width,
   height |-> RESOLUTIONS(aspectRatio).height,
   colors |-> colors, videoTitle |-> videoTitle, image |-> image,
   analyser |-> analyserRef, source |-> sourceRef, audioEl |-> audioRef,
   recorder |-> "inactive", stopPending |-> FALSE, play |-> "pending",
   tap |-> TRUE, listener |-> TRUE, emitted |-> <<>>,
   offscreenBarLengths |-> <<>>, frame |-> Blank,
   fillStyle |-> ContextDefaultStyle, strokeStyle |-> ContextDefaultStyle]

\* A download that leaves the analyser on the speakers.
StaysOnSpeakers(g, analyser) == g

\* analyser.disconnect(audioCtx.destination)
DisconnectFromSpeakers(g, analyser) == [g EXCEPT ![analyser].toSpeakers = FALSE]

\* handleDownload; hasContext: whether the offscreen canvas yields a 2D context
HandleDownload(hasContext) ==
  /\ Idle
  /\ PanelMounted
  /\ IF DownloadRefused
       THEN UNCHANGED vars
     ELSE IF ~hasContext
       THEN /\ error' = NULL
            /\ UNCHANGED <<file, fileUrl, isPlaying, isDownloading, isGenerating,
                           isGeneratingTitle, colors, aspectRatio, videoTitle, image,
                           refVars, platformVars, canvasVars, frameQueue>>
     ELSE /\ Len(sessions) < MaxSessions
          /\ isDownloading' = TRUE
          /\ error' = NULL
          /\ sessions' = Append(sessions, NewSession)
          /\ mediaRecorderRef' = Len(sessions) + 1
          /\ recordingChunksRef' = <<>>
          /\ graphs' = DisconnectFromSpeakers(graphs, analyserRef)
          /\ media' = [media EXCEPT ![audioRef].state =
                                      IF @ = "playing" THEN "playing" ELSE "paused"]
          /\ UNCHANGED <<file, fileUrl, isPlaying, isGenerating, isGeneratingTitle,
                         colors, aspectRatio, videoTitle, image, audioRef,
                         audioContextRef, analyserRef, sourceRef, downloads,
                         pendingImage, canvasVars, frameQueue>>

\* A drawOffscreen that keeps its bars in the live canvas's barLengthsRef.
DrawOffscreenOnLiveBars(ss, cw, s, sample) ==
  IF mediaRecorderRef = 0 \/ ss[mediaRecorderRef].recorder # "recording"
    THEN [sessions |-> ss, cw |-> cw]
    ELSE LET c == ss[s]
             k == Len(cw.canvas)
             bars == AdvanceBars(cw.canvas[k].barLengthsRef, sample, c.width, c.height)
             frame == OffscreenFrame(c, bars)
             shared == [cw EXCEPT !.canvas[k].barLengthsRef = bars]
         IN [sessions |->
               [ss EXCEPT ![s] =
                  [c EXCEPT !.offscreenBarLengths = bars,
                            !.frame = frame,
                            !.fillStyle = IF frame.title = NoTitle
                                            THEN frame.background ELSE TitleFill,
                            !.strokeStyle = frame.strokes[NUM_BARS]]],
             cw |-> RequestAnimationFrame(shared, "drawOffscreen", s, NoProps)]

\* A drawOffscreen that draws with the palette, title and image of the latest render.
DrawOffscreenLatest(ss, cw, s, sample) ==
  IF mediaRecorderRef = 0 \/ ss[mediaRecorderRef].recorder # "recording"
    THEN [sessions |-> ss, cw |-> cw]
    ELSE LET c == ss[s]
             bars == AdvanceBars(c.offscreenBarLengths, sample, c.width, c.height)
             frame == OffscreenFrame([c EXCEPT !.colors = colors,
                                               !.videoTitle = videoTitle,
                                               !.image = image], bars)
         IN [sessions |->
               [ss EXCEPT ![s] =
                  [c EXCEPT !.offscreenBarLengths = bars,
                            !.frame = frame,
                            !.fillStyle = IF frame.title = NoTitle
                                            THEN frame.background ELSE TitleFill,
                            !.strokeStyle = frame.strokes[NUM_BARS]]],
             cw |-> RequestAnimationFrame(cw, "drawOffscreen", s, NoProps)]

\* drawOffscreen of session s: nothing unless the current recorder is recording
DrawOffscreen(ss, cw, s, sample) ==
  IF mediaRecorderRef = 0 \/ ss[mediaRecorderRef].recorder # "recording"
    THEN [sessions |-> ss, cw |-> cw]
    ELSE LET c == ss[s]
             bars == AdvanceBars(c.offscreenBarLengths, sample, c.width, c.height)
             frame == OffscreenFrame(c, bars)
         IN [sessions |->
               [ss EXCEPT ![s] =
                  [c EXCEPT !.offscreenBarLengths = bars,
                            !.frame = frame,
                            !.fillStyle = IF frame.title = NoTitle
                                            THEN frame.background ELSE TitleFill,
                            !.strokeStyle = frame.strokes[NUM_BARS]]],
             cw |-> RequestAnimationFrame(cw, "drawOffscreen", s, NoProps)]

\* A catch that reports the failure without reconnecting the analyser.
PlayCatchNoReconnect(s) ==
  /\ error' = ErrPlayback
  /\ isDownloading' = FALSE
  /\ graphs' = graphs

\* the catch of audioEl.play().then(...)
PlayCatch(s) ==
  /\ error' = ErrPlayback
  /\ isDownloading' = FALSE
  /\ graphs' = [graphs EXCEPT ![sessions[s].analyser].toSpeakers = TRUE]

\* audioEl.play() resolves; started: whether recorder.start() returns normally
PlayResolved(s, started) ==
  /\ Idle
  /\ s \in 1..Len(sessions)
  /\ sessions[s].play = "pending"
  /\ media' = [media EXCEPT ![sessions[s].audioEl].state = "playing"]
  /\ IF started
       THEN \E sampleOff \in Heard(graphs, media', sessions[s].analyser) :
            LET rec == [sessions EXCEPT ![s].play = "resolved",
                                         ![s].recorder = "recording"]
                d == DrawOffscreen(rec, World, s, sampleOff)
            IN /\ sessions' = d.sessions
               /\ isPlaying' = TRUE
               /\ UNCHANGED <<file, fileUrl, isDownloading, isGenerating,
                              isGeneratingTitle, colors, aspectRatio, videoTitle, image,
                              error, refVars, graphs, downloads, pendingImage,
                              frameQueue>>
               /\ Rerender(d.cw)
       ELSE /\ sessions' = [sessions EXCEPT ![s].play = "resolved"]
            /\ PlayCatch(s)
            /\ UNCHANGED <<file, fileUrl, isPlaying, isGenerating, isGeneratingTitle,
                           colors, aspectRatio, videoTitle, image, refVars, downloads,
                           pendingImage, canvasVars, frameQueue>>

\* audioEl.play() rejects
PlayRejected(s) ==
  /\ Idle
  /\ s \in 1..Len(sessions)
  /\ sessions[s].play = "pending"
  /\ media' = [media EXCEPT ![sessions[s].audioEl].state = "paused"]
  /\ sessions' = [sessions EXCEPT ![s].play = "rejected"]
  /\ PlayCatch(s)
  /\ UNCHANGED <<file, fileUrl, isPlaying, isGenerating, isGeneratingTitle, colors,
                 aspectRatio, videoTitle, image, refVars, downloads, pendingImage,
                 canvasVars, frameQueue>>

\* The media element el reaches its end: React's onEnded of the mounted element,
\* then every stopRecording still listening (each listens once).
MediaEnded(el) ==
  /\ Idle
  /\ el \in 1..Len(media)
  /\ media[el].state = "playing"
  /\ media' = [media EXCEPT ![el].state = "ended"]
  /\ isPlaying' = IF el = audioRef THEN FALSE ELSE isPlaying
  /\ sessions' = [s \in 1..Len(sessions) |->
                    IF sessions[s].audioEl = el /\ sessions[s].listener
                      THEN [StopRecording(sessions[s]) EXCEPT !.listener = FALSE]
                      ELSE sessions[s]]
  /\ UNCHANGED <<file, fileUrl, isDownloading, isGenerating, isGeneratingTitle, colors,
                 aspectRatio, videoTitle, image, error, refVars, graphs, downloads,
                 pendingImage, frameQueue>>
  /\ Rerender(World)

\* The recorder of session s reports an error.  inactivated: whether the platform
\* has already taken the recorder out of the recording state (and queued its stop
\* event) when onerror runs.
RecorderError(s, inactivated) ==
  /\ Idle
  /\ s \in 1..Len(sessions)
  /\ sessions[s].recorder = "recording"
  /\ error' = ErrVideo
  /\ sessions' = [sessions EXCEPT ![s] =
                    StopRecording(IF inactivated
                                    THEN [@ EXCEPT !.recorder = "inactive",
                                                   !.stopPending = TRUE]
                                    ELSE @)]
  /\ UNCHANGED <<file, fileUrl, isPlaying, isDownloading, isGenerating, isGeneratingTitle,
                 colors, aspectRatio, videoTitle, image, refVars, media, graphs,
                 downloads, pendingImage, canvasVars, frameQueue>>

\* The next blob of session s's recorder: the n-th it emits, of the given size.
NextBlob(s, size) ==
  [session |-> s, n |-> Len(sessions[s].emitted) + 1, size |-> size]

\* An ondataavailable that puts the newest blob first.
OnDataAvailableFirst(chunks, data) ==
  IF data.size > 0 THEN <<data>> \o chunks ELSE chunks

\* recorder.ondataavailable
OnDataAvailable(chunks, data) ==
  IF data.size > 0 THEN Append(chunks, data) ELSE chunks

\* The recording recorder of session s delivers a blob of the given size.
RecorderData(s, size) ==
  /\ Idle
  /\ s \in 1..Len(sessions)
  /\ sessions[s].recorder = "recording"
  /\ Len(sessions[s].emitted) < MaxChunks
  /\ recordingChunksRef' = OnDataAvailable(recordingChunksRef, NextBlob(s, size))
  /\ sessions' = [sessions EXCEPT ![s].emitted = Append(@, NextBlob(s, size))]
  /\ UNCHANGED <<appVars, audioRef, audioContextRef, analyserRef, sourceRef,
                 mediaRecorderRef, media, graphs, downloads, pendingImage, canvasVars,
                 frameQueue>>

\* The stopped recorder of session s delivers its data (size: of the blob) and its
\* stop event: ondataavailable, then onstop.
RecorderStop(s, size) ==
  /\ Idle
  /\ s \in 1..Len(sessions)
  /\ sessions[s].stopPending
  /\ LET chunks == OnDataAvailable(recordingChunksRef, NextBlob(s, size))
     IN /\ recordingChunksRef' = chunks
        /\ downloads' = Append(downloads,
                               [name |-> DownloadName(sessions[s].fileName),
                                chunks |-> chunks])
  /\ sessions' = [sessions EXCEPT ![s].stopPending = FALSE, ![s].tap = FALSE,
                                  ![s].listener = FALSE,
                                  ![s].emitted = Append(@, NextBlob(s, size))]
  /\ graphs' = [graphs EXCEPT ![sessions[s].analyser].toSpeakers = TRUE]
  /\ isDownloading' = FALSE
  /\ isPlaying' = FALSE
  /\ UNCHANGED <<file, fileUrl, isGenerating, isGeneratingTitle, colors, aspectRatio,
                 videoTitle, image, error, audioRef, audioContextRef, analyserRef,
                 sourceRef, mediaRecorderRef, media, pendingImage, frameQueue>>
  /\ Rerender(World)

\* ---------------------------------------------------------- display refresh
\* The callbacks pending at the refresh run in the order they were requested.
BeginFrame ==
  /\ Idle
  /\ rafQueue # <<>>
  /\ nextHandle + Len(rafQueue) <= handleBudget
  /\ frameQueue' = rafQueue
  /\ rafQueue' = <<>>
  /\ UNCHANGED <<appVars, refVars, platformVars, canvas, nextHandle, handleBudget>>

LiveTick ==
  /\ frameQueue # <<>>
  /\ Head(frameQueue).kind = "draw"
  /\ \E sample \in Heard(graphs, media, Head(frameQueue).props.analyserNode) :
     LET e == Head(frameQueue)
         out == Draw(World, e.owner, e.props, sample)
     IN /\ canvas' = out.canvas
        /\ rafQueue' = out.raf
        /\ nextHandle' = out.next
  /\ frameQueue' = Tail(frameQueue)
  /\ UNCHANGED <<appVars, refVars, platformVars, handleBudget>>

CaptureTick ==
  /\ frameQueue # <<>>
  /\ Head(frameQueue).kind = "drawOffscreen"
  /\ \E sample \in Heard(graphs, media, sessions[Head(frameQueue).owner].analyser) :
     LET e == Head(frameQueue)
         out == DrawOffscreen(sessions, World, e.owner, sample)
     IN /\ sessions' = out.sessions
        /\ canvas' = out.cw.canvas
        /\ rafQueue' = out.cw.raf
        /\ nextHandle' = out.cw.next
  /\ frameQueue' = Tail(frameQueue)
  /\ UNCHANGED <<appVars, refVars, media, graphs, downloads, pendingImage, handleBudget>>

\* ------------------------------------------------------------ specification
Next ==
  \/ \E name \in FileNames : HandleFileSelect(name)
  \/ OnNewFile
  \/ HandlePlayPause
  \/ \E ratio \in AspectRatios : OnAspectRatioChange(ratio)
  \/ \E title \in TypedTitles : OnVideoTitleChange(title)
  \/ \E img \in Images : HandleImageSelect(img)
  \/ ImageOnload
  \/ ImageOnerror
  \/ GeneratePaletteStart
  \/ \E r \in PaletteResponses : GeneratePaletteSettle(r)
  \/ GenerateTitleStart
  \/ \E r \in TitleResponses : GenerateTitleSettle(r)
  \/ \E hasContext \in BOOLEAN : HandleDownload(hasContext)
  \/ \E s \in 1..MaxSessions, started \in BOOLEAN : PlayResolved(s, started)
  \/ \E s \in 1..MaxSessions : PlayRejected(s)
  \/ \E el \in 1..MaxLoads : MediaEnded(el)
  \/ \E s \in 1..MaxSessions, inactivated \in BOOLEAN : RecorderError(s, inactivated)
  \/ \E s \in 1..MaxSessions, size \in 0..1 : RecorderData(s, size)
  \/ \E s \in 1..MaxSessions, size \in 0..1 : RecorderStop(s, size)
  \/ BeginFrame
  \/ LiveTick
  \/ CaptureTick

Spec == Init /\ [][Next]_vars


\* The Playback/Transport Controller and the control flow of the Capture Pipeline.
TransportNext ==
  \/ \E name \in FileNames : HandleFileSelect(name)
  \/ OnNewFile
  \/ HandlePlayPause
  \/ \E hasContext \in BOOLEAN : HandleDownload(hasContext)
  \/ \E s \in 1..MaxSessions, started \in BOOLEAN : PlayResolved(s, started)
  \/ \E s \in 1..MaxSessions : PlayRejected(s)
  \/ \E el \in 1..MaxLoads : MediaEnded(el)
  \/ \E s \in 1..MaxSessions, inactivated \in BOOLEAN : RecorderError(s, inactivated)
  \/ \E s \in 1..MaxSessions, size \in 0..1 : RecorderStop(s, size)

TransportSpec == InitWith(TransportHandles) /\ [][TransportNext]_vars

\* The Live Playback Loop of one asset: transport, the changes of what is drawn, and
\* the display refreshes.
LoopNext ==
  \/ \E name \in FileNames : HandleFileSelect(name)
  \/ HandlePlayPause
  \/ \E el \in 1..MaxLoads : MediaEnded(el)
  \/ \E title \in TypedTitles : OnVideoTitleChange(title)
  \/ \E img \in Images : HandleImageSelect(img)
  \/ ImageOnload
  \/ GeneratePaletteStart
  \/ \E r \in PaletteResponses : GeneratePaletteSettle(r)
  \/ BeginFrame
  \/ LiveTick

LoopSpec == Init /\ [][LoopNext]_vars

\* The capture render loop beside the live loop.
CaptureNext ==
  \/ \E name \in FileNames : HandleFileSelect(name)
  \/ HandlePlayPause
  \/ \E hasContext \in BOOLEAN : HandleDownload(hasContext)
  \/ \E s \in 1..MaxSessions, started \in BOOLEAN : PlayResolved(s, started)
  \/ \E el \in 1..MaxLoads : MediaEnded(el)
  \/ \E s \in 1..MaxSessions, inactivated \in BOOLEAN : RecorderError(s, inactivated)
  \/ \E s \in 1..MaxSessions, size \in 0..1 : RecorderStop(s, size)
  \/ BeginFrame
  \/ LiveTick
  \/ CaptureTick

CaptureSpec == Init /\ [][CaptureNext]_vars

\* Palette and title generation.
GenerateNext ==
  \/ \E name \in FileNames : HandleFileSelect(name)
  \/ HandlePlayPause
  \/ \E title \in TypedTitles : OnVideoTitleChange(title)
  \/ \E img \in Images : HandleImageSelect(img)
  \/ ImageOnload
  \/ ImageOnerror
  \/ GeneratePaletteStart
  \/ \E r \in PaletteResponses : GeneratePaletteSettle(r)
  \/ GenerateTitleStart
  \/ \E r \in TitleResponses : GenerateTitleSettle(r)

GenerateSpec == InitWith(GenerateHandles) /\ [][GenerateNext]_vars


\* Capture sessions one after the other, with both render loops.
SessionsNext ==
  \/ \E name \in FileNames : HandleFileSelect(name)
  \/ HandlePlayPause
  \/ \E hasContext \in BOOLEAN : HandleDownload(hasContext)
  \/ \E s \in 1..MaxSessions : PlayResolved(s, TRUE)
  \/ \E el \in 1..MaxLoads : MediaEnded(el)
  \/ \E s \in 1..MaxSessions, size \in 0..1 : RecorderStop(s, size)
  \/ BeginFrame
  \/ LiveTick
  \/ CaptureTick

SessionsSpec == InitWith(SessionsHandles) /\ [][SessionsNext]_vars

\* The blobs of the capture sessions of one asset, up to the files they end in.
ChunksNext ==
  \/ \E name \in FileNames : HandleFileSelect(name)
  \/ HandlePlayPause
  \/ HandleDownload(TRUE)
  \/ \E s \in 1..MaxSessions : PlayResolved(s, TRUE)
  \/ \E el \in 1..MaxLoads : MediaEnded(el)
  \/ \E s \in 1..MaxSessions, inactivated \in BOOLEAN : RecorderError(s, inactivated)
  \/ \E s \in 1..MaxSessions, size \in 0..1 : RecorderData(s, size)
  \/ \E s \in 1..MaxSessions, size \in 0..1 : RecorderStop(s, size)

ChunksSpec == InitWith(ChunksHandles) /\ [][ChunksNext]_vars

\* One capture session while the palette and the title are generated anew.
ClosureNext ==
  \/ \E name \in FileNames : HandleFileSelect(name)
  \/ HandlePlayPause
  \/ GeneratePaletteStart
  \/ \E r \in PaletteResponses : GeneratePaletteSettle(r)
  \/ GenerateTitleStart
  \/ \E r \in TitleResponses : GenerateTitleSettle(r)
  \/ HandleDownload(TRUE)
  \/ \E s \in 1..MaxSessions : PlayResolved(s, TRUE)
  \/ BeginFrame
  \/ LiveTick
  \/ CaptureTick

ClosureSpec == InitWith(ClosureHandles) /\ [][ClosureNext]_vars

\* What the platform does by itself sooner or later: a playing media element reaches
\* its end, a play() promise settles, a stopped recorder delivers its stop event.
PlatformFairness ==
  /\ WF_vars(\E el \in 1..MaxLoads : MediaEnded(el))
  /\ WF_vars(\E s \in 1..MaxSessions :
               PlayRejected(s) \/ \E started \in BOOLEAN : PlayResolved(s, started))
  /\ WF_vars(\E s \in 1..MaxSessions, size \in 0..1 : RecorderStop(s, size))

FairTransportSpec == TransportSpec /\ PlatformFairness

\* The two renderers as functions of their inputs: a mounted canvas and a recording
\* session drawn with any palette, title, image and aspect ratio.
RenderPalettes == { <<>>, <<"#010101">>, <<"#010101", "#00FFD1">>, InitialColors }
RenderTitles == { <<>>, <<" ">>, <<"T">> }

RenderProps ==
  [analyserNode |-> 1, isPlaying |-> TRUE, colors |-> colors,
   videoTitle |-> videoTitle, image |-> image]

RenderInit ==
  /\ handleBudget = RenderHandles
  /\ file \in FileNames /\ fileUrl = 1
  /\ isPlaying = TRUE /\ isDownloading = TRUE
  /\ isGenerating = FALSE /\ isGeneratingTitle = FALSE
  /\ colors \in RenderPalettes
  /\ aspectRatio \in AspectRatios
  /\ videoTitle \in RenderTitles
  /\ image \in {NULL} \cup Images
  /\ error = NULL
  /\ audioRef = 1 /\ audioContextRef = 1 /\ analyserRef = 1 /\ sourceRef = 1
  /\ mediaRecorderRef = 1 /\ recordingChunksRef = <<>>
  /\ media = <<[src |-> 1, state |-> "playing"]>>
  /\ graphs = <<[element |-> 1, toSpeakers |-> FALSE]>>
  /\ sessions = <<[NewSession EXCEPT !.recorder = "recording", !.play = "resolved"]>>
  /\ downloads = <<>>
  /\ pendingImage = NULL
  /\ canvas = <<[NewCanvas(RenderProps) EXCEPT !.hasCleanup = TRUE,
                                               !.animationFrameRef = 1]>>
  /\ rafQueue = <<[handle |-> 1, kind |-> "draw", owner |-> 1, props |-> RenderProps],
                  [handle |-> 2, kind |-> "drawOffscreen", owner |-> 1, props |-> NoProps]>>
  /\ frameQueue = <<>>
  /\ nextHandle = 2

RenderNext ==
  \/ BeginFrame
  \/ LiveTick
  \/ CaptureTick

RenderSpec == RenderInit /\ [][RenderNext]_vars

\* ----------------------------------------------- Number arithmetic (doubles)
\* The bar update in the arithmetic the program runs it in: JavaScript Numbers,
\* IEEE 754 doubles with round to nearest, ties to even.
\* A natural number of any size: its digits in base Base, lowest first, no leading 0.
Base == 32768
BaseBits == 15
Precision == 53

Rest(a) == IF a = <<>> THEN <<>> ELSE Tail(a)
Low(a) == IF a = <<>> THEN 0 ELSE Head(a)

RECURSIVE NatTrim(_)
NatTrim(a) ==
  IF a # <<>> /\ a[Len(a)] = 0 THEN NatTrim(SubSeq(a, 1, Len(a) - 1)) ELSE a

RECURSIVE NatFromInt(_)
NatFromInt(n) == IF n = 0 THEN <<>> ELSE <<n % Base>> \o NatFromInt(n \div Base)

RECURSIVE NatAddCarry(_, _, _)
NatAddCarry(a, b, carry) ==
  IF a = <<>> /\ b = <<>>
    THEN NatFromInt(carry)
    ELSE <<(Low(a) + Low(b) + carry) % Base>>
           \o NatAddCarry(Rest(a), Rest(b), (Low(a) + Low(b) + carry) \div Base)

NatAdd(a, b) == NatAddCarry(a, b, 0)

\* a - b for a >= b
RECURSIVE NatSubBorrow(_, _, _)
NatSubBorrow(a, b, borrow) ==
  IF a = <<>> THEN <<>>
  ELSE LET d == Low(a) - Low(b) - borrow
       IN <<d % Base>> \o NatSubBorrow(Rest(a), Rest(b), IF d < 0 THEN 1 ELSE 0)

NatSub(a, b) == NatTrim(NatSubBorrow(a, b, 0))

\* -1, 0, 1 as a is below, equal to, above b
RECURSIVE NatCmp(_, _)
NatCmp(a, b) ==
  IF Len(a) # Len(b) THEN (IF Len(a) < Len(b) THEN -1 ELSE 1)
  ELSE IF a = <<>> THEN 0
  ELSE IF a[Len(a)] # b[Len(b)] THEN (IF a[Len(a)] < b[Len(b)] THEN -1 ELSE 1)
  ELSE NatCmp(SubSeq(a, 1, Len(a) - 1), SubSeq(b, 1, Len(b) - 1))

\* a * k for 0 <= k <= Base
RECURSIVE NatMulSmallCarry(_, _, _)
NatMulSmallCarry(a, k, carry) ==
  IF a = <<>> THEN NatFromInt(carry)
  ELSE <<(Head(a) * k + carry) % Base>>
         \o NatMulSmallCarry(Tail(a), k, (Head(a) * k + carry) \div Base)

NatMulSmall(a, k) == NatTrim(NatMulSmallCarry(a, k, 0))

RECURSIVE NatMul(_, _)
NatMul(a, b) ==
  IF a = <<>> \/ b = <<>> THEN <<>>
  ELSE NatTrim(NatAdd(NatMulSmall(a, Head(b)), <<0>> \o NatMul(a, Tail(b))))

\* quotient and remainder of a by k, 0 < k <= Base; the digits highest first
RECURSIVE NatDivSmallFrom(_, _, _, _)
NatDivSmallFrom(a, i, k, rem) ==
  IF i = 0 THEN [quot |-> <<>>, rem |-> rem]
  ELSE LET x == rem * Base + a[i]
           lower == NatDivSmallFrom(a, i - 1, k, x % k)
       IN [quot |-> Append(lower.quot, x \div k), rem |-> lower.rem]

NatDivSmall(a, k) ==
  LET d == NatDivSmallFrom(a, Len(a), k, 0)
  IN [quot |-> NatTrim(d.quot), rem |-> d.rem]

Zeros(n) == [i \in 1..n |-> 0]

\* a * 2^n and floor(a / 2^n)
NatShl(a, n) ==
  IF a = <<>> THEN <<>>
  ELSE Zeros(n \div BaseBits) \o NatMulSmall(a, 2 ^ (n % BaseBits))

NatShr(a, n) ==
  IF n \div BaseBits >= Len(a) THEN <<>>
  ELSE NatDivSmall(SubSeq(a, n \div BaseBits + 1, Len(a)), 2 ^ (n % BaseBits)).quot

RECURSIVE IntBits(_)
IntBits(n) == IF n = 0 THEN 0 ELSE 1 + IntBits(n \div 2)

NatBits(a) == IF a = <<>> THEN 0 ELSE (Len(a) - 1) * BaseBits + IntBits(a[Len(a)])

NatOdd(a) == Low(a) % 2 = 1

\* A number sign * m * 2^e.  A double has m of exactly Precision bits, or is Zero.
Zero == [sign |-> 1, m |-> <<>>, e |-> 0]

\* Round to nearest, ties to even, of m * 2^e (exponent range not modelled: every
\* value here is far from overflow and underflow).
Round(sign, m, e) ==
  LET bits == NatBits(m) IN
  IF m = <<>> THEN Zero
  ELSE IF bits <= Precision
    THEN [sign |-> sign, m |-> NatShl(m, Precision - bits), e |-> e - (Precision - bits)]
  ELSE LET drop == bits - Precision
           q == NatShr(m, drop)
           rest == NatSub(m, NatShl(q, drop))
           half == NatCmp(rest, NatShl(<<1>>, drop - 1))
           up == half = 1 \/ (half = 0 /\ NatOdd(q))
           r == IF up THEN NatAdd(q, <<1>>) ELSE q
       IN IF NatBits(r) > Precision
            THEN [sign |-> sign, m |-> NatShr(r, 1), e |-> e + drop + 1]
            ELSE [sign |-> sign, m |-> r, e |-> e + drop]

ToDouble(n) == Round(1, NatFromInt(n), 0)

\* the double nearest to n / d, for integers n >= 0 and 0 < d <= Base
DivInt(n, d) ==
  LET x == NatDivSmall(NatShl(NatFromInt(n), 75), d)
  IN Round(1, NatAdd(NatShl(x.quot, 1), IF x.rem = 0 THEN <<>> ELSE <<1>>), -76)

Mul(a, b) == Round(a.sign * b.sign, NatMul(a.m, b.m), a.e + b.e)

\* the mantissas of a and b over their common (lower) exponent
Aligned(a, b) ==
  LET e == IF a.m = <<>> THEN b.e ELSE IF b.m = <<>> THEN a.e ELSE Min(a.e, b.e)
  IN [a |-> NatShl(a.m, a.e - e), b |-> NatShl(b.m, b.e - e), e |-> e]

\* -1, 0, 1 as a is below, equal to, above b; a, b not negative
Cmp(a, b) == NatCmp(Aligned(a, b).a, Aligned(a, b).b)

\* the exact a - b, for a, b not negative
Minus(a, b) ==
  LET x == Aligned(a, b) IN
  IF NatCmp(x.a, x.b) >= 0
    THEN [sign |-> 1, m |-> NatSub(x.a, x.b), e |-> x.e]
    ELSE [sign |-> -1, m |-> NatSub(x.b, x.a), e |-> x.e]

Sub(a, b) == Round(Minus(a, b).sign, Minus(a, b).m, Minus(a, b).e)

\* Math.max(a, b), for a not negative
MathMax(a, b) == IF b.sign = -1 \/ Cmp(a, b) >= 0 THEN a ELSE b

\* Math.min(width, height) * 0.35
NumberMaxBarLength(width, height) == Mul(ToDouble(Min(width, height)), DivInt(35, 100))

\* (dataArray[dataIndex] / 255) * maxBarLength
NumberTargetLength(data, maxBarLength) == Mul(DivInt(data, 255), maxBarLength)

\* barLengths[i] || 0
NumberOldLength(barLengths, i) == IF i <= Len(barLengths) THEN barLengths[i] ELSE Zero

\* maxBarLength * 0.025
NumberDecay(maxBarLength) == Mul(maxBarLength, DivInt(25, 1000))

\* A bar that keeps its old length when the target is not below it.
NumberNewLengthHeld(targetLength, oldLength, maxBarLength) ==
  IF Cmp(targetLength, oldLength) >= 0
    THEN oldLength
    ELSE MathMax(targetLength, Sub(oldLength, NumberDecay(maxBarLength)))

\* A bar that falls by the decay step whatever the target.
NumberNewLengthUnclamped(targetLength, oldLength, maxBarLength) ==
  IF Cmp(targetLength, oldLength) >= 0
    THEN targetLength
    ELSE Sub(oldLength, NumberDecay(maxBarLength))

NumberNewLength(targetLength, oldLength, maxBarLength) ==
  IF Cmp(targetLength, oldLength) >= 0
    THEN targetLength
    ELSE MathMax(targetLength, Sub(oldLength, NumberDecay(maxBarLength)))

NumberAdvanceBars(barLengths, sample, maxBarLength) ==
  [i \in 1..NUM_BARS |->
     NumberNewLength(NumberTargetLength(DataAt(sample, DataIndex(i - 1)), maxBarLength),
                     NumberOldLength(barLengths, i),
                     maxBarLength)]

LiveNumberMax ==
  NumberMaxBarLength(ClientSize(aspectRatio).width, ClientSize(aspectRatio).height)
CaptureNumberMax ==
  NumberMaxBarLength(RESOLUTIONS(aspectRatio).width, RESOLUTIONS(aspectRatio).height)

\* A playing canvas and a recording session that have each run one tick on the
\* spectrum `heard`, their bar lengths kept as Numbers.
NumberInit ==
  /\ handleBudget = NumberHandles
  /\ file \in FileNames /\ fileUrl = 1
  /\ isPlaying = TRUE /\ isDownloading = TRUE
  /\ isGenerating = FALSE /\ isGeneratingTitle = FALSE
  /\ colors = InitialColors
  /\ aspectRatio \in AspectRatios
  /\ videoTitle = <<>>
  /\ image = NULL
  /\ error = NULL
  /\ audioRef = 1 /\ audioContextRef = 1 /\ analyserRef = 1 /\ sourceRef = 1
  /\ mediaRecorderRef = 1 /\ recordingChunksRef = <<>>
  /\ media = <<[src |-> 1, state |-> "playing"]>>
  /\ graphs = <<[element |-> 1, toSpeakers |-> FALSE]>>
  /\ downloads = <<>>
  /\ pendingImage = NULL
  /\ \E first \in Spectra :
       /\ sessions =
            <<[heard |-> first] @@
              [NewSession EXCEPT !.recorder = "recording", !.play = "resolved",
                                 !.offscreenBarLengths =
                                    NumberAdvanceBars(<<>>, first, CaptureNumberMax)]>>
       /\ canvas =
            <<[heard |-> first] @@
              [NewCanvas(RenderProps) EXCEPT !.hasCleanup = TRUE,
                                             !.animationFrameRef = 1,
                                             !.width = ClientSize(aspectRatio).width,
                                             !.height = ClientSize(aspectRatio).height,
                                             !.barLengthsRef =
                                                NumberAdvanceBars(<<>>, first,
                                                                  LiveNumberMax)]>>
  /\ rafQueue = <<[handle |-> 1, kind |-> "draw", owner |-> 1, props |-> RenderProps],
                  [handle |-> 2, kind |-> "drawOffscreen", owner |-> 1, props |-> NoProps]>>
  /\ frameQueue = <<>>
  /\ nextHandle = 2

\* The pending callback of the given kind runs and is requested again.
Rescheduled(kind) ==
  /\ nextHandle < handleBudget
  /\ nextHandle' = nextHandle + 1
  /\ rafQueue' = Append(SelectSeq(rafQueue, LAMBDA e : e.kind # kind),
                        [(CHOOSE e \in {rafQueue[i] : i \in 1..Len(rafQueue)} :
                            e.kind = kind) EXCEPT !.handle = nextHandle + 1])

\* the bar update of draw
NumberLiveTick ==
  /\ \E sample \in Spectra :
       canvas' = [canvas EXCEPT ![1].heard = sample,
                                ![1].barLengthsRef =
                                   NumberAdvanceBars(@, sample, LiveNumberMax)]
  /\ Rescheduled("draw")
  /\ UNCHANGED <<appVars, refVars, platformVars, frameQueue, handleBudget>>

\* the bar update of drawOffscreen
NumberCaptureTick ==
  /\ \E sample \in Spectra :
       sessions' = [sessions EXCEPT ![1].heard = sample,
                                    ![1].offscreenBarLengths =
                                       NumberAdvanceBars(@, sample, CaptureNumberMax)]
  /\ Rescheduled("drawOffscreen")
  /\ UNCHANGED <<appVars, refVars, media, graphs, downloads, pendingImage, canvas,
                 frameQueue, handleBudget>>

NumberNext ==
  \/ NumberLiveTick
  \/ NumberCaptureTick

NumberSpec == NumberInit /\ [][NumberNext]_vars

\* The download name as a function of the file name: a session whose recorder has
\* been stopped, for a file of any name.
NameChars == {"a", "b", "."}
NameInputs == UNION {[1..n -> NameChars] : n \in 1..MaxNameLen}

NameInit ==
  /\ handleBudget = 1
  /\ file \in NameInputs /\ fileUrl = 1
  /\ isPlaying = FALSE /\ isDownloading = TRUE
  /\ isGenerating = FALSE /\ isGeneratingTitle = FALSE
  /\ colors = InitialColors
  /\ aspectRatio = "16:9"
  /\ videoTitle = <<>>
  /\ image = NULL
  /\ error = NULL
  /\ audioRef = 1 /\ audioContextRef = 1 /\ analyserRef = 1 /\ sourceRef = 1
  /\ mediaRecorderRef = 1 /\ recordingChunksRef = <<>>
  /\ media = <<[src |-> 1, state |-> "ended"]>>
  /\ graphs = <<[element |-> 1, toSpeakers |-> FALSE]>>
  /\ sessions = <<[NewSession EXCEPT !.play = "resolved", !.stopPending = TRUE,
                                     !.listener = FALSE]>>
  /\ downloads = <<>>
  /\ pendingImage = NULL
  /\ canvas = <<[NewCanvas([RenderProps EXCEPT !.isPlaying = FALSE])
                   EXCEPT !.hasCleanup = TRUE]>>
  /\ rafQueue = <<>>
  /\ frameQueue = <<>>
  /\ nextHandle = 1

NameNext == \E size \in 0..1 : RecorderStop(1, size)

NameSpec == NameInit /\ [][NameNext]_vars

\* ===================================================================== claims
Connected == analyserRef # 0 /\ graphs[analyserRef].toSpeakers

\* C1: whenever the AudioGraph exists and no capture session is in progress, the
\* analysis node is connected to the speaker output.
C1_SpeakersRestored == (analyserRef # 0 /\ ~isDownloading) => Connected

\* C1 witness: a capture session has ended by encoder finalization, another by a
\* failed playback start, and the analyser is connected again.
C1_Witness ==
  /\ ~isDownloading
  /\ Connected
  /\ Len(downloads) >= 1
  /\ \E s \in 1..Len(sessions) : sessions[s].play = "rejected"

\* C2: an encoder error during a capture session leads to the analysis node
\* reconnected to the output and the downloading flag cleared.
C2_ErrorLeadsToCleanup ==
  (isDownloading /\ error = ErrVideo) ~> (~isDownloading /\ Connected)

\* C2 witness: the session that reported the encoder error has been cleaned up.
C2_Witness ==
  /\ error = ErrVideo
  /\ ~isDownloading
  /\ Connected
  /\ Len(downloads) >= 1

LiveTicksPending ==
  {i \in 1..Len(rafQueue) : rafQueue[i].kind = "draw"}
    \cup {i \in 1..Len(frameQueue) : frameQueue[i].kind = "draw"}

\* C3: once the live loop has left Playing, no live tick is pending or scheduled.
C3_NoLiveTickWhilePaused == (file # NoFile /\ ~isPlaying) => LiveTicksPending = {}

LiveBars == [k \in 1..Len(canvas) |-> canvas[k].barLengthsRef]
CaptureBars == [s \in 1..Len(sessions) |-> sessions[s].offscreenBarLengths]
LiveTickRuns == frameQueue # <<>> /\ Head(frameQueue).kind = "draw"
CaptureTickRuns == frameQueue # <<>> /\ Head(frameQueue).kind = "drawOffscreen"

\* C4: a capture tick leaves every live BarLengths unchanged and a live tick leaves
\* every capture BarLengths unchanged.
C4_BarLengthsDisjoint ==
  [][/\ CaptureTickRuns => LiveBars' = LiveBars
     /\ LiveTickRuns => CaptureBars' = CaptureBars]_vars

\* C4 witness: during a recording session a live tick and a capture tick are due in
\* the same refresh, and both loops have advanced their own bars.
C4_Witness ==
  /\ isDownloading
  /\ \E s \in 1..Len(sessions) :
       sessions[s].recorder = "recording" /\ sessions[s].offscreenBarLengths # <<>>
  /\ \E k \in 1..Len(canvas) : canvas[k].barLengthsRef # <<>>
  /\ \E i, j \in 1..Len(frameQueue) :
       frameQueue[i].kind = "draw" /\ frameQueue[j].kind = "drawOffscreen"

SessionActive(s) ==
  sessions[s].play = "pending" \/ sessions[s].recorder = "recording"
    \/ sessions[s].stopPending

CanStartCapture ==
  /\ file # NoFile
  /\ audioContextRef # 0 /\ analyserRef # 0 /\ sourceRef # 0
  /\ ~isDownloading

C6_StartedCaptureFinalizes ==
  \A s \in 1..MaxSessions :
    (s <= Len(sessions) /\ sessions[s].recorder = "recording") ~> ~isDownloading

\* C7: the analysis node in use is fed by a source bound to the media element of the
\* loaded asset.
C7_GraphFollowsAsset ==
  (audioRef # 0 /\ analyserRef # 0) => graphs[sourceRef].element = audioRef

\* C8: at most one analysis node (and source node) is ever created for one loaded
\* asset.
C8_SetupIdempotent ==
  \A el \in 1..Len(media) :
    Cardinality({g \in 1..Len(graphs) : graphs[g].element = el}) <= 1

\* C8 witness: play was requested at least twice and a download was started on the
\* asset that has the one graph.
C8_Witness ==
  /\ Len(graphs) = 1
  /\ nextHandle >= 4
  /\ Len(sessions) >= 1

FallbackStrokes(frame) ==
  frame = Blank \/ \A i \in 1..NUM_BARS : frame.strokes[i] \in {"#8A2BE2", "#FFFFFF"}

C10_PaletteAtLeastTwo == Len(colors) >= 2

\* C10 witness: a provider palette was accepted and a later, too short one refused.
C10_Witness ==
  /\ colors # InitialColors
  /\ error = ErrPaletteShort
  /\ ~isGenerating


PaletteFailure(r) == r.failed \/ Len(r.palette) < 2
TitleFailure(r) == r.failed \/ StripQuotes(Trim(r.text)) = <<>>

\* C11: when a palette or title generation fails, the palette and the title keep
\* their values, the generating flag returns to idle and an error message is set.
C11_FailureKeepsValues ==
  [][/\ (\E r \in PaletteResponses : PaletteFailure(r) /\ GeneratePaletteSettle(r))
          => /\ colors' = colors /\ videoTitle' = videoTitle
             /\ ~isGenerating'
             /\ error' \in {ErrPaletteShort, ErrPaletteService}
     /\ (\E r \in TitleResponses : TitleFailure(r) /\ GenerateTitleSettle(r))
          => /\ colors' = colors /\ videoTitle' = videoTitle
             /\ ~isGeneratingTitle'
             /\ error' = ErrTitleService
    ]_vars

\* C11 witness: a title generation has failed while a generated palette and a typed
\* title were in place, and both are still there.
C11_Witness ==
  /\ error = ErrTitleService
  /\ ~isGeneratingTitle
  /\ videoTitle # <<>>
  /\ colors # InitialColors



\* The bars advanced by the step: previous and new length, target and maximum.
LiveAdvances ==
  IF canvas' = canvas THEN {}
  ELSE {[previous |-> canvas[1].barLengthsRef[i],
         new |-> canvas'[1].barLengthsRef[i],
         target |-> NumberTargetLength(DataAt(canvas'[1].heard, DataIndex(i - 1)),
                                      LiveNumberMax),
         max |-> LiveNumberMax] : i \in 1..NUM_BARS}

CaptureAdvances ==
  IF sessions' = sessions THEN {}
  ELSE {[previous |-> sessions[1].offscreenBarLengths[i],
         new |-> sessions'[1].offscreenBarLengths[i],
         target |-> NumberTargetLength(DataAt(sessions'[1].heard, DataIndex(i - 1)),
                                      CaptureNumberMax),
         max |-> CaptureNumberMax] : i \in 1..NUM_BARS}

InRange(x, max) == x.sign = 1 /\ Cmp(x, max) <= 0

\* C12: with previous length and target within [0, maxLength], one advance step gives
\* a length within [0, maxLength], equal to the target when target >= previous.
C12_AdvanceInRange ==
  [][\A c \in LiveAdvances \cup CaptureAdvances :
       (InRange(c.previous, c.max) /\ InRange(c.target, c.max))
         => /\ InRange(c.new, c.max)
            /\ Cmp(c.target, c.previous) >= 0 => c.new = c.target]_vars

\* C12 witness: both loops have advanced their bars to the full-scale target.
C12_Witness ==
  /\ nextHandle = 4
  /\ canvas[1].heard = "loud" /\ canvas[1].barLengthsRef[NUM_BARS] = LiveNumberMax
  /\ sessions[1].heard = "loud"
  /\ sessions[1].offscreenBarLengths[NUM_BARS] = CaptureNumberMax

\* x * k, exactly
Times(x, k) == [sign |-> x.sign, m |-> NatMulSmall(x.m, k), e |-> x.e]
\* x * 2^n, exactly
Scaled(x, n) == [sign |-> x.sign, m |-> x.m, e |-> x.e + n]
\* a + b, exactly, for a, b not negative
Plus(a, b) ==
  [sign |-> 1, m |-> NatAdd(Aligned(a, b).a, Aligned(a, b).b), e |-> Aligned(a, b).e]
Fall(c) == Minus(c.previous, c.new)

\* C13 as stated: when the target is below the previous length, one advance step
\* lowers the length by at most maxLength * 0.025 and never below the target.
C13_DecayBound ==
  [][\A c \in LiveAdvances \cup CaptureAdvances :
       Cmp(c.target, c.previous) < 0
         => /\ Fall(c).sign = -1 \/ Cmp(Times(Fall(c), 40), c.max) <= 0
            /\ Cmp(c.new, c.target) >= 0]_vars

\* C13 amended: when the target is below the previous length, one advance step lowers
\* the length by at most maxLength * 0.025 + maxLength * 2^-50 (the rounding of the
\* product and of the subtraction) and never below the target.
C13_DecayBoundRounded ==
  [][\A c \in LiveAdvances \cup CaptureAdvances :
       Cmp(c.target, c.previous) < 0
         => /\ Fall(c).sign = -1
               \/ Cmp(Times(Fall(c), 40), Plus(c.max, Times(Scaled(c.max, -50), 40))) <= 0
            /\ Cmp(c.new, c.target) >= 0]_vars

\* C13 witness: a capture bar has fallen from the "mid" level by one rounded decay
\* step.
C13_Witness ==
  /\ nextHandle > 2
  /\ sessions[1].heard = "silence"
  /\ sessions[1].offscreenBarLengths[NUM_BARS] =
       Sub(NumberTargetLength(19, CaptureNumberMax), NumberDecay(CaptureNumberMax))


\* C14: while a capture session is in progress no play/pause toggle, asset load or
\* asset replacement takes effect: the asset and its media element stay, and the
\* media of a recording session is not paused.
C14_TransportLockedDuringCapture ==
  [][(\E s \in 1..Len(sessions) : SessionActive(s))
       => /\ isDownloading
          /\ ~HandlePlayPause
          /\ ~OnNewFile
          /\ ~(\E name \in FileNames : HandleFileSelect(name))
          /\ file' = file /\ fileUrl' = fileUrl /\ audioRef' = audioRef
          /\ \A s \in 1..Len(sessions) :
               (sessions[s].recorder = "recording"
                  /\ media[sessions[s].audioEl].state = "playing")
                 => media'[sessions[s].audioEl].state # "paused"]_vars

\* C14 witness: a session is recording the playing media and the transport is
\* disabled.
C14_Witness ==
  /\ isDownloading /\ isPlaying
  /\ \E s \in 1..Len(sessions) :
       /\ sessions[s].recorder = "recording"
       /\ sessions[s].audioEl = audioRef
       /\ media[audioRef].state = "playing"


Dots(name) == {i \in 1..Len(name) : name[i] = "."}
LastDot(name) == CHOOSE i \in Dots(name) : \A j \in Dots(name) : j <= i
WithoutExtension(name) ==
  IF Dots(name) = {} THEN name ELSE SubSeq(name, 1, LastDot(name) - 1)

\* C15: the downloaded file is named after the input file with only its extension
\* removed, followed by "_visualizer" and ".webm".
C15_NameStripsExtensionOnly ==
  \A k \in 1..Len(downloads) :
    downloads[k].name = WithoutExtension(file) \o <<"_visualizer", ".", "webm">>


LiveTickHandles ==
  {rafQueue[i].handle : i \in {j \in 1..Len(rafQueue) : rafQueue[j].kind = "draw"}}
    \cup {frameQueue[i].handle :
            i \in {j \in 1..Len(frameQueue) : frameQueue[j].kind = "draw"}}

\* C16: while Playing at most one live tick is pending at any time.
C16_OneLiveTickPending ==
  (file # NoFile /\ isPlaying) => Cardinality(LiveTickHandles) <= 1


\* C17: a capture tick that runs when the encoder of its session is not recording
\* draws nothing, does not advance the capture BarLengths and does not reschedule.
C17_CaptureTickGuarded ==
  [][(CaptureTickRuns /\ sessions[Head(frameQueue).owner].recorder # "recording")
       => /\ sessions' = sessions
          /\ rafQueue' = rafQueue]_vars


\* C18: whenever an encoder is in the recording state, the analysis node of its
\* session is not connected to the speaker output and the recording tap of the
\* session is connected to the source.
C18_SilentWhileRecording ==
  \A s \in 1..Len(sessions) :
    sessions[s].recorder = "recording"
      => /\ ~graphs[sessions[s].analyser].toSpeakers
         /\ sessions[s].tap

\* C18 witness: a second session is recording after the first one failed to start
\* playback and reconnected the analyser in between.
C18_Witness ==
  /\ Len(sessions) = 2 /\ sessions[1].play = "rejected"
  /\ sessions[2].recorder = "recording"
  /\ ~graphs[sessions[2].analyser].toSpeakers
  /\ sessions[2].tap


\* C19: no recording tap of a capture session that has ended stays connected to the
\* source.
C19_TapReleased ==
  \A s \in 1..Len(sessions) : ~SessionActive(s) => ~sessions[s].tap


\* C20: when audioEl.play() rejects for a capture session, no encoder object is held
\* for that session and none is recording, the session's analyser is back on the
\* speakers and isDownloading is cleared.
C20_AbortBeforeEncoder ==
  [][\A s \in 1..Len(sessions) :
       PlayRejected(s) =>
         /\ mediaRecorderRef' # s
         /\ sessions'[s].recorder # "recording"
         /\ graphs'[sessions[s].analyser].toSpeakers
         /\ ~isDownloading'
    ]_vars


NonEmpty(blob) == blob.size > 0

\* C21: the chunk list only grows at its end while a session lasts and is emptied
\* only by a new session; a file handed to the browser holds exactly the non-empty
\* blobs its session's recorder emitted, in the order of emission, and so no blob of
\* another session.
C21_FileIsSessionChunks ==
  [][/\ \/ recordingChunksRef' = recordingChunksRef
        \/ /\ Len(recordingChunksRef') = Len(recordingChunksRef) + 1
           /\ SubSeq(recordingChunksRef', 1, Len(recordingChunksRef)) = recordingChunksRef
        \/ /\ Len(sessions') = Len(sessions) + 1
           /\ recordingChunksRef' = <<>>
     /\ \A s \in 1..Len(sessions) :
          (\E size \in 0..1 : RecorderStop(s, size)) =>
            /\ Len(downloads') = Len(downloads) + 1
            /\ downloads'[Len(downloads')].chunks
                 = SelectSeq(sessions'[s].emitted, NonEmpty)
    ]_vars

\* C21 witness: the second session's file holds its two blobs in order, after the
\* first session's file took a blob of its own.
C21_Witness ==
  /\ Len(downloads) = 2
  /\ Len(downloads[1].chunks) >= 1
  /\ Len(downloads[2].chunks) = 2
  /\ downloads[2].chunks = SelectSeq(sessions[2].emitted, NonEmpty)
  /\ downloads[2].chunks[1].n < downloads[2].chunks[2].n


\* C22: while an asset is loaded and no analyser is attached, a change of the
\* palette, the centre image or the title leaves the live canvas showing the new
\* background, image and title, with no bar longer than zero.
C22_StaticWithoutAnalyser ==
  [][(/\ file # NoFile /\ file' = file
      /\ analyserRef' = 0
      /\ <<colors', image', videoTitle'>> # <<colors, image, videoTitle>>)
       => LET c == canvas'[Len(canvas')]
          IN /\ c.frame.background
                  = (IF BackgroundColor(colors') = Undefined
                       THEN "#000000" ELSE BackgroundColor(colors'))
             /\ c.frame.image = image'
             /\ c.frame.title = DrawTitle(videoTitle', c.width, c.height)
             /\ \A i \in 1..Len(c.frame.lengths) : c.frame.lengths[i] = 0
    ]_vars


\* The capture ticks of session s that are waiting for a display refresh or due in
\* the current one.
CaptureTickHandles(s) ==
  {rafQueue[i].handle :
     i \in {j \in 1..Len(rafQueue) :
              rafQueue[j].kind = "drawOffscreen" /\ rafQueue[j].owner = s}}
    \cup {frameQueue[i].handle :
            i \in {j \in 1..Len(frameQueue) :
                     frameQueue[j].kind = "drawOffscreen" /\ frameQueue[j].owner = s}}

\* C23: a capture tick renders and reschedules only for the session whose encoder is
\* recording: it changes neither the surface nor the BarLengths of a session whose
\* encoder is not recording, and asks for no further tick of such a session.
C23_OneCaptureLoop ==
  [][CaptureTickRuns =>
       \A s \in 1..Len(sessions) :
         sessions[s].recorder # "recording"
           => /\ sessions'[s] = sessions[s]
              /\ CaptureTickHandles(s)' \subseteq CaptureTickHandles(s)
    ]_vars


\* What handleDownload's closure holds of the render it was created in.
Closed(c) == <<c.colors, c.videoTitle, c.image, c.width, c.height>>

\* C24: a capture session takes its palette, title, centre image and dimensions from
\* the state at the download request and keeps them; every frame the session draws
\* shows that image and that title at those dimensions, that palette's background
\* and bar colours; a step that changes the palette, the title or the image changes
\* no session.
C24_CaptureKeepsRequestValues ==
  [][/\ \A s \in 1..Len(sessions') :
          IF s > Len(sessions)
            THEN Closed(sessions'[s])
                   = <<colors, videoTitle, image, RESOLUTIONS(aspectRatio).width,
                       RESOLUTIONS(aspectRatio).height>>
            ELSE /\ Closed(sessions'[s]) = Closed(sessions[s])
                 /\ sessions'[s].frame # sessions[s].frame =>
                      LET c == sessions[s]
                          f == sessions'[s].frame
                      IN /\ f.image = c.image
                         /\ f.title = DrawTitle(c.videoTitle, c.width, c.height)
                         /\ c.colors # <<>> => f.background = c.colors[1]
                         /\ Len(c.colors) >= 2 =>
                              \A i \in 1..NUM_BARS :
                                f.strokes[i] = BarColorAt(Tail(c.colors), i - 1)
     /\ <<colors', videoTitle', image'>> # <<colors, videoTitle, image>>
          => sessions' = sessions
    ]_vars

\* C24 witness: while a session records, the palette and the title are no longer
\* those of the download request, the live canvas shows the new ones, and the
\* session has drawn a frame since with those of the request.
C24_Witness ==
  \E s \in 1..Len(sessions) :
    LET live == canvas[Len(canvas)] IN
    /\ sessions[s].recorder = "recording"
    /\ sessions[s].colors # colors /\ sessions[s].videoTitle # videoTitle
    /\ live.frame.background = colors[1]
    /\ live.frame.title = DrawTitle(videoTitle, live.width, live.height)
    /\ sessions[s].frame.background = sessions[s].colors[1]
    /\ sessions[s].frame.title = NoTitle
    /\ \E h \in CaptureTickHandles(s) : h > live.animationFrameRef


\* C25: whenever isPlaying is false and no capture session is in progress, the
\* mounted media element is not playing.
C25_PausedMeansSilent ==
  (/\ ~isPlaying
   /\ ~isDownloading
   /\ \A s \in 1..Len(sessions) : ~SessionActive(s)
   /\ audioRef # 0)
    => media[audioRef].state # "playing"

====
